---- MODULE Spec2Model ----
(***************************************************************************)
(* Model of sphinx-zeta-suppress: the level normalisation, the three       *)
(* suppression filters, the filter registry built from the configuration   *)
(* and the installer that attaches the filters to the Sphinx loggers found *)
(* in the loaded extension modules, run twice by the 'config-inited'       *)
(* event.                                                                  *)
(*                                                                         *)
(* Python strings are sequences of one-character strings, so that          *)
(* iterating over a string, str.startswith and regex search are modelled   *)
(* by what they do.                                                        *)
(***************************************************************************)
EXTENDS Integers, Sequences, FiniteSets, TLC

VARIABLES
    config,      \* the three zeta_suppress_* values of conf.py
    extensions,  \* app.extensions: the names of the loaded extensions, in order
    members,     \* module name -> the loggers (by name) among its members
    listeners,   \* the 'config-inited' listeners, in connection order
    queue,       \* the listeners the running event still has to call
    phase,       \* "init", "setup", "firing", "done", "failed"
    installs,    \* completed runs of install_supress_handlers
    filters,     \* logger name -> logger.filters
    seen,        \* the `seen` set of the last installer run
    last,        \* the last record logged and what became of it
    pc,          \* position of the function call under study
    arg,         \* its argument
    res          \* its result

vars == <<config, extensions, members, listeners, queue, phase, installs,
          filters, seen, last, pc, arg, res>>

appVars == <<config, extensions, members, listeners, queue, phase, installs,
             filters, seen, last>>

callVars == <<pc, arg, res>>

(***************************************************************************)
(* Bounds                                                                  *)
(***************************************************************************)
MaxLevelItems == 2      \* longest iterable of levels handed to _parse_levels
MaxOtherHandlers == 1   \* 'config-inited' handlers connected by other extensions

(***************************************************************************)
(* Sequences and strings                                                   *)
(***************************************************************************)
Range(s) == {s[i] : i \in 1..Len(s)}

\* str.startswith
StartsWith(s, p) == Len(p) <= Len(s) /\ SubSeq(s, 1, Len(p)) = p

\* iterating over a str yields its one-character strings
Chars(s) == [i \in 1..Len(s) |-> <<s[i]>>]

RECURSIVE SeqsUpTo(_, _)
SeqsUpTo(S, n) ==
    IF n = 0 THEN {<<>>}
    ELSE LET shorter == SeqsUpTo(S, n - 1)
         IN shorter \cup {Append(q, x) : q \in {r \in shorter : Len(r) = n - 1}, x \in S}

(***************************************************************************)
(* Python values handed in as logging levels                               *)
(***************************************************************************)
PyInt(n)   == [t |-> "int",   n |-> n, s |-> <<>>, e |-> <<>>]
PyBool(b)  == [t |-> "bool",  n |-> IF b THEN 1 ELSE 0, s |-> <<>>, e |-> <<>>]
PyStr(s)   == [t |-> "str",   n |-> 0, s |-> s, e |-> <<>>]
PyFloat(n) == [t |-> "float", n |-> n, s |-> <<>>, e |-> <<>>]
PyNone     == [t |-> "none",  n |-> 0, s |-> <<>>, e |-> <<>>]
PyList(e)  == [t |-> "list",  n |-> 0, s |-> <<>>, e |-> e]
PyTuple(e) == [t |-> "tuple", n |-> 0, s |-> <<>>, e |-> e]

\* isinstance(x, int): bool is a subclass of int
IsInt(x) == x.t \in {"int", "bool"}

\* isinstance(x, collections.abc.Iterable): a str is iterable
IsIterable(x) == x.t \in {"str", "list", "tuple"}

\* what iterating over x yields
Items(x) == IF x.t = "str" THEN [i \in 1..Len(x.s) |-> PyStr(<<x.s[i]>>)] ELSE x.e

\* a list cannot be a dict key, nor can a tuple that holds one
RECURSIVE Hashable(_)
Hashable(x) ==
    CASE x.t = "list"  -> FALSE
      [] x.t = "tuple" -> \A i \in 1..Len(x.e) : Hashable(x.e[i])
      [] OTHER         -> TRUE

WARNING == <<"W", "A", "R", "N", "I", "N", "G">>
ERROR   == <<"E", "R", "R", "O", "R">>
INFO    == <<"I", "N", "F", "O">>
DEBUG   == <<"D", "E", "B", "U", "G">>

\* logging._nameToLevel
NameToLevel ==
    (WARNING :> 30) @@ (ERROR :> 40) @@ (INFO :> 20) @@ (DEBUG :> 10)
    @@ (<<"W", "A", "R", "N">> :> 30)
    @@ (<<"C", "R", "I", "T", "I", "C", "A", "L">> :> 50)
    @@ (<<"F", "A", "T", "A", "L">> :> 50)
    @@ (<<"N", "O", "T", "S", "E", "T">> :> 0)

(***************************************************************************)
(* _normalize_level and _parse_levels                                      *)
(***************************************************************************)
Level(n)       == [r |-> "int", n |-> n]
NoLevel        == [r |-> "None", n |-> 0]
LevelTypeError == [r |-> "TypeError", n |-> 0]

_normalize_level(level) ==
    IF IsInt(level) THEN Level(level.n)
    ELSE IF ~Hashable(level) THEN LevelTypeError            \* except TypeError
    ELSE IF level.t = "str" /\ level.s \in DOMAIN NameToLevel
         THEN Level(NameToLevel[level.s])
    ELSE NoLevel                                            \* except KeyError

_notnone(value) == value.r # "None"

RECURSIVE FilterNotNone(_)
FilterNotNone(rs) ==
    IF rs = <<>> THEN <<>>
    ELSE IF _notnone(Head(rs)) THEN <<Head(rs).n>> \o FilterNotNone(Tail(rs))
    ELSE FilterNotNone(Tail(rs))

Raised == [err |-> TRUE, out |-> <<>>]
Returned(out) == [err |-> FALSE, out |-> out]

_parse_levels(levels) ==
    IF ~IsIterable(levels) /\ ~(IsInt(levels) \/ levels.t = "str")
    THEN Raised
    ELSE LET items == IF IsIterable(levels) THEN Items(levels) ELSE <<levels>>
             norm  == [i \in 1..Len(items) |-> _normalize_level(items[i])]
         IN IF \E i \in 1..Len(norm) : norm[i].r = "TypeError"
            THEN Raised
            ELSE Returned(FilterNotNone(norm))

(***************************************************************************)
(* Log records, message formatting and regex search                        *)
(***************************************************************************)
\* msg % args, for a template whose only conversions are %s
RECURSIVE PercentFormat(_, _)
PercentFormat(msg, args) ==
    IF msg = <<>> THEN <<>>
    ELSE IF Len(msg) >= 2 /\ msg[1] = "%" /\ msg[2] = "s" /\ args # <<>>
         THEN Head(args) \o PercentFormat(SubSeq(msg, 3, Len(msg)), Tail(args))
    ELSE <<Head(msg)>> \o PercentFormat(Tail(msg), args)

\* logging.LogRecord.getMessage: the template is formatted only when there are args
getMessage(record) ==
    IF record.args # <<>> THEN PercentFormat(record.msg, record.args) ELSE record.msg

\* pattern p matches m at position i: "." matches any character, others themselves
MatchAt(p, m, i) ==
    /\ i + Len(p) - 1 <= Len(m)
    /\ \A k \in 1..Len(p) : p[k] = "." \/ p[k] = m[i + k - 1]

\* re.compile(p).search(m): a match anywhere, or at the start after a leading "^"
Search(p, m) ==
    IF p # <<>> /\ p[1] = "^"
    THEN MatchAt(Tail(p), m, 1)
    ELSE \E i \in 1..(Len(m) + 1) : MatchAt(p, m, i)

(***************************************************************************)
(* The filters.  A filter object carries the attributes the three classes  *)
(* set: name and nlen (logging.Filter), levels (all = the _ALL universe),  *)
(* patterns; id stands for the object's identity, err for a constructor    *)
(* that raised.                                                            *)
(***************************************************************************)
NewObject(cls, id) ==
    [id |-> id, cls |-> cls, name |-> <<>>, nlen |-> 0,
     all |-> FALSE, levels |-> <<>>, patterns |-> {}, err |-> FALSE]

\* logging.Filter.__init__
FilterInit(self, name) == [self EXCEPT !.name = name, !.nlen = Len(name)]

\* logging.Filter.filter: the record's logger is `name` or one of its descendants
FilterFilter(self, record) ==
    IF self.nlen = 0 THEN TRUE
    ELSE IF self.name = record.name THEN TRUE
    ELSE IF ~StartsWith(record.name, self.name) THEN FALSE
    ELSE record.name[self.nlen + 1] = "."

\* SphinxSuppressPatterns.__init__; `patterns` is what iterating the argument yields
SphinxSuppressPatternsInit(self, patterns) ==
    [FilterInit(self, <<>>) EXCEPT !.patterns = Range(patterns)]

\* levels handed to SphinxSuppressLogger.__init__: a bool, or what _parse_levels takes
ResolveLevels(levels) ==
    IF levels.t = "bool"
    THEN [err |-> FALSE, all |-> levels.n = 1, out |-> <<>>]
    ELSE LET r == _parse_levels(levels)
         IN [err |-> r.err, all |-> FALSE, out |-> r.out]

\* SphinxSuppressLogger.__init__.  super() follows the MRO of the object's class:
\* for a SphinxSuppressRecord the class after SphinxSuppressLogger is
\* SphinxSuppressPatterns, whose __init__ takes the name as its patterns and
\* names the filter ''.
SphinxSuppressLoggerInit(self, name, levels) ==
    LET base == IF self.cls = "SphinxSuppressRecord"
                THEN SphinxSuppressPatternsInit(self, Chars(name))
                ELSE FilterInit(self, name)
        lv   == ResolveLevels(levels)
    IN [base EXCEPT !.all = lv.all, !.levels = lv.out, !.err = lv.err]

SphinxSuppressRecordInit(self, name, levels, patterns) ==
    SphinxSuppressPatternsInit(SphinxSuppressLoggerInit(self, name, levels), patterns)

SphinxSuppressLogger(id, name, levels) ==
    SphinxSuppressLoggerInit(NewObject("SphinxSuppressLogger", id), name, levels)

SphinxSuppressPatterns(id, patterns) ==
    SphinxSuppressPatternsInit(NewObject("SphinxSuppressPatterns", id), patterns)

SphinxSuppressRecord(id, name, levels, patterns) ==
    SphinxSuppressRecordInit(NewObject("SphinxSuppressRecord", id), name, levels, patterns)

\* SphinxSuppressLogger.suppressed
LoggerSuppressed(self, record) ==
    LET should_log == FilterFilter(self, record)
    IN ~should_log \/ (self.all \/ record.levelno \in Range(self.levels))

\* C3 mutant: the patterns are searched in the unformatted template record.msg
PatternsSuppressedInTemplate(self, record) ==
    IF self.patterns = {} THEN FALSE
    ELSE \E p \in self.patterns : Search(p, record.msg)

\* SphinxSuppressPatterns.suppressed
PatternsSuppressed(self, record) ==
    IF self.patterns = {} THEN FALSE
    ELSE LET m == getMessage(record)
         IN \E p \in self.patterns : Search(p, m)

\* SphinxSuppressRecord.suppressed
RecordSuppressed(self, record) ==
    LoggerSuppressed(self, record) /\ PatternsSuppressed(self, record)

\* the suppressed() the object's class defines
suppressed(self, record) ==
    CASE self.cls = "SphinxSuppressLogger"   -> LoggerSuppressed(self, record)
      [] self.cls = "SphinxSuppressPatterns" -> PatternsSuppressed(self, record)
      [] self.cls = "SphinxSuppressRecord"   -> RecordSuppressed(self, record)

\* SphinxSuppressFilter.filter
SphinxSuppressFilterFilter(self, record) == ~suppressed(self, record)

(***************************************************************************)
(* The filter registry: _get_filters                                       *)
(***************************************************************************)
\* sphinx.util.logging.NAMESPACE
NAMESPACE == <<"s", "p", "h", "i", "n", "x">>

format_name(name) == NAMESPACE \o <<".">> \o name

\* an item of zeta_suppress_records: a bare pattern, or a tuple (name, pattern, ...)
BarePattern(p)     == [t |-> "str",   name |-> <<>>, pats |-> <<p>>]
Group(name, pats)  == [t |-> "tuple", name |-> name, pats |-> pats]

_is_pattern_like(obj) == obj.t = "str"

NotPatternLike(obj) == ~_is_pattern_like(obj)

\* _partition(_is_pattern_like, iterable): (no, yes)
_partition(iterable) ==
    [no |-> SelectSeq(iterable, NotPatternLike), yes |-> SelectSeq(iterable, _is_pattern_like)]

\* filters_by_prefix.setdefault(prefix, []).append(suppressor), on a dict kept in
\* insertion order
RECURSIVE SetDefaultAppend(_, _, _)
SetDefaultAppend(d, prefix, suppressor) ==
    IF d = <<>> THEN <<[prefix |-> prefix, filters |-> <<suppressor>>]>>
    ELSE IF Head(d).prefix = prefix
         THEN <<[Head(d) EXCEPT !.filters = Append(@, suppressor)]>> \o Tail(d)
    ELSE <<Head(d)>> \o SetDefaultAppend(Tail(d), prefix, suppressor)

RECURSIVE CollectByPrefix(_, _)
CollectByPrefix(d, made) ==
    IF made = <<>> THEN d
    ELSE CollectByPrefix(SetDefaultAppend(d, Head(made).prefix, Head(made).f), Tail(made))

\* the id <<run, kind, k>> stands for the identity of the k-th filter object of a
\* kind that the run-th call creates
_get_filters(cfg, run) ==
    LET byLogger == [k \in 1..Len(cfg.loggers) |->
                        LET prefix == format_name(cfg.loggers[k].name)
                        IN [prefix |-> prefix,
                            f |-> SphinxSuppressLogger(<<run, "logger", k>>, prefix,
                                                       cfg.loggers[k].levels)]]
        parts    == _partition(cfg.records)
        byGroup  == [j \in 1..Len(parts.no) |->
                        LET prefix == format_name(parts.no[j].name)
                        IN [prefix |-> prefix,
                            f |-> SphinxSuppressRecord(<<run, "record", j>>, prefix,
                                                       PyBool(TRUE), parts.no[j].pats)]]
        made     == byLogger \o byGroup
        patterns == [i \in 1..Len(parts.yes) |-> parts.yes[i].pats[1]]
    IN [err               |-> \E i \in 1..Len(made) : made[i].f.err,
        default_filter    |-> SphinxSuppressPatterns(<<run, "default", 0>>, patterns),
        filters_by_prefix |-> CollectByPrefix(<<>>, made)]

(***************************************************************************)
(* The loaded modules, as the installer sees them                          *)
(***************************************************************************)
LApp      == format_name(<<"a">>)
LAppX     == format_name(<<"a", "x">>)
LAppChild == format_name(<<"a", ".", "b">>)
LOther    == format_name(<<"b">>)
LDeep     == format_name(<<"a", ".", "d">>)
LProt     == format_name(<<"a", ".", "p">>)
LSubProt  == format_name(<<"a", ".", "q">>)
LLate     == format_name(<<"a", ".", "l">>)
LNew      == format_name(<<"b", ".", "n">>)

Loggers == {LApp, LAppX, LAppChild, LOther, LDeep, LProt, LSubProt, LLate, LNew}

Modules == {"ext", "prot", "pkg", "pkg.sub", "pkg.sub.deep", "pkg.bad", "pkg.prot", "late"}

\* the module whose code creates the logger
DefinedIn ==
    (LApp :> "ext") @@ (LAppX :> "pkg.sub") @@ (LAppChild :> "prot") @@ (LOther :> "pkg")
    @@ (LDeep :> "pkg.sub.deep") @@ (LProt :> "prot") @@ (LSubProt :> "pkg.prot")
    @@ (LLate :> "late") @@ (LNew :> "ext")

\* inspect.getmembers(module, _is_sphinx_logger_adapter) at start-up: "ext" imports
\* a logger of "prot"
InitMembers ==
    ("ext" :> {LApp, LAppChild}) @@ ("prot" :> {LAppChild, LProt}) @@ ("pkg" :> {LOther})
    @@ ("pkg.sub" :> {LAppX}) @@ ("pkg.sub.deep" :> {LDeep}) @@ ("pkg.bad" :> {})
    @@ ("pkg.prot" :> {LSubProt}) @@ ("late" :> {LLate})

InitExtensions == <<"ext", "prot", "pkg">>

\* hasattr(mod, '__path__')
HasPath(m) == m \in {"pkg", "pkg.sub"}

\* pkgutil.iter_modules(mod.__path__, mod.__name__ + '.'): the direct submodules
IterModules(m) ==
    CASE m = "pkg"     -> <<"pkg.bad", "pkg.prot", "pkg.sub">>
      [] m = "pkg.sub" -> <<"pkg.sub.deep">>
      [] OTHER         -> <<>>

\* importlib.import_module raises ImportError for "pkg.bad"
Importable(m) == m # "pkg.bad"

(***************************************************************************)
(* The installer: _update_logger_in and install_supress_handlers           *)
(***************************************************************************)
\* for f in filters: if f not in adapter.logger.filters: adapter.logger.addFilter(f)
RECURSIVE AddFilters(_, _)
AddFilters(attached, fs) ==
    IF fs = <<>> THEN attached
    ELSE AddFilters(IF Head(fs) \in Range(attached) THEN attached
                    ELSE Append(attached, Head(fs)),
                    Tail(fs))

\* for prefix, filters in filters_by_prefix.items(): if name.startswith(prefix): ...
RECURSIVE AddByPrefix(_, _, _)
AddByPrefix(attached, name, filters_by_prefix) ==
    IF filters_by_prefix = <<>> THEN attached
    ELSE AddByPrefix(IF StartsWith(name, Head(filters_by_prefix).prefix)
                     THEN AddFilters(attached, Head(filters_by_prefix).filters)
                     ELSE attached,
                     name, Tail(filters_by_prefix))

\* the body of the loop over the members of a module, for one adapter
UpdateAdapter(attached, name, default_filter, filters_by_prefix) ==
    AddFilters(AddByPrefix(attached, name, filters_by_prefix), <<default_filter>>)

\* st = [seen, filters]: the _cache and every logger's filters
_update_logger_in(st, module, mem, default_filter, filters_by_prefix) ==
    IF module \in st.seen THEN st
    ELSE [seen    |-> st.seen \cup {module},
          filters |-> [l \in DOMAIN st.filters |->
                          IF l \in mem[module]
                          THEN UpdateAdapter(st.filters[l], l, default_filter,
                                             filters_by_prefix)
                          ELSE st.filters[l]]]

\* for mod_info in pkgutil.iter_modules(mod_path, mod_prefix): ...
RECURSIVE ScanSubmodules(_, _, _, _, _)
ScanSubmodules(st, infos, cfg, mem, gf) ==
    IF infos = <<>> THEN st
    ELSE LET name == Head(infos)
             next == IF name \in cfg.protect THEN st
                     ELSE IF ~Importable(name) THEN st
                     ELSE _update_logger_in(st, name, mem, gf.default_filter,
                                            gf.filters_by_prefix)
         IN ScanSubmodules(next, Tail(infos), cfg, mem, gf)

\* the body of the loop over app.extensions.values()
ScanExtension(st, extension, cfg, mem, gf) ==
    IF extension \in cfg.protect THEN st
    ELSE LET st1 == _update_logger_in(st, extension, mem, gf.default_filter,
                                      gf.filters_by_prefix)
         IN IF ~HasPath(extension) THEN st1
            ELSE ScanSubmodules(st1, IterModules(extension), cfg, mem, gf)

RECURSIVE ScanExtensions(_, _, _, _, _)
ScanExtensions(st, exts, cfg, mem, gf) ==
    IF exts = <<>> THEN st
    ELSE ScanExtensions(ScanExtension(st, Head(exts), cfg, mem, gf), Tail(exts),
                        cfg, mem, gf)

\* the run-th call of the handler; err = _get_filters raised and nothing was scanned
install_supress_handlers(cfg, exts, mem, attached, run) ==
    LET gf == _get_filters(cfg, run)
    IN IF gf.err THEN [err |-> TRUE, seen |-> {}, filters |-> attached]
       ELSE LET st == ScanExtensions([seen |-> {}, filters |-> attached], exts, cfg,
                                     mem, gf)
            IN [err |-> FALSE, seen |-> st.seen, filters |-> st.filters]

(***************************************************************************)
(* The 'config-inited' event                                               *)
(***************************************************************************)
LowPriority  == 0
HighPriority == 1000

Listener(handler, priority) == [handler |-> handler, priority |-> priority]

\* C9 mutant: the second connection is made at the low priority too
SetupListenersBothLow ==
    <<Listener("install_supress_handlers", LowPriority),
      Listener("install_supress_handlers", LowPriority)>>

\* setup(): app.connect('config-inited', install_supress_handlers, priority=...)
SetupListeners ==
    <<Listener("install_supress_handlers", LowPriority),
      Listener("install_supress_handlers", HighPriority)>>

\* the event calls its listeners by ascending priority, equal ones in connection order
RECURSIVE InsertByPriority(_, _)
InsertByPriority(sorted, x) ==
    IF sorted = <<>> THEN <<x>>
    ELSE IF x.priority < Head(sorted).priority THEN <<x>> \o sorted
    ELSE <<Head(sorted)>> \o InsertByPriority(Tail(sorted), x)

RECURSIVE SortByPriority(_)
SortByPriority(ls) ==
    IF ls = <<>> THEN <<>>
    ELSE InsertByPriority(SortByPriority(SubSeq(ls, 1, Len(ls) - 1)), ls[Len(ls)])

(***************************************************************************)
(* Inputs: configurations, handlers of other extensions, log records       *)
(***************************************************************************)
ShortApp   == <<"a">>
ShortOther == <<"b">>

Entry(name, levels) == [name |-> name, levels |-> levels]

\* zeta_suppress_loggers, in insertion order; the first is the default {}
LoggersOptions ==
    { <<>>,
      <<Entry(ShortApp, PyList(<<PyStr(WARNING), PyStr(ERROR)>>))>>,
      <<Entry(ShortApp, PyBool(TRUE))>>,
      <<Entry(ShortApp, PyStr(WARNING)), Entry(ShortOther, PyInt(20))>>,
      <<Entry(ShortApp, PyNone)>> }

\* zeta_suppress_records; the first is the default []
RecordsOptions ==
    { <<>>,
      <<BarePattern(<<"x">>)>>,
      <<Group(ShortApp, << <<"x">> >>)>>,
      <<BarePattern(<<"s">>), Group(ShortApp, << <<"^", "y">>, <<"x">> >>),
        BarePattern(<<"^", "y">>)>> }

\* zeta_suppress_protect; the first is the default []
ProtectOptions == { {}, {"prot"}, {"prot", "pkg.prot"} }

Configs ==
    [loggers : LoggersOptions, records : RecordsOptions, protect : ProtectOptions]

\* priorities at which other extensions connect a 'config-inited' handler
OtherPriorities == {500, 1500}

\* what such a handler does: load the extension "late", create a logger in "ext"
OtherEffects == {"load", "define", "none"}

LogLevels == {20, 30}

LogMessages ==
    { [msg |-> <<"a", "x">>, args |-> <<>>],
      [msg |-> <<"y">>,      args |-> <<>>],
      [msg |-> <<"%", "s">>, args |-> <<>>],
      [msg |-> <<"%", "s">>, args |-> << <<"x">> >>] }

LogRecord(name, levelno, m) ==
    [name |-> name, levelno |-> levelno, msg |-> m.msg, args |-> m.args]

NoLast ==
    [logger |-> <<>>, record |-> LogRecord(<<>>, 0, [msg |-> <<>>, args |-> <<>>]),
     by |-> {}, dropped |-> FALSE]

(***************************************************************************)
(* The application: set-up, the event, logging                             *)
(***************************************************************************)
Init ==
    /\ config \in Configs
    /\ extensions = InitExtensions
    /\ members = InitMembers
    /\ listeners = <<>>
    /\ queue = <<>>
    /\ phase = "init"
    /\ installs = 0
    /\ filters = [l \in Loggers |-> <<>>]
    /\ seen = {}
    /\ last = NoLast
    /\ pc = "idle"
    /\ arg = 0
    /\ res = 0

\* setup(app)
Setup ==
    /\ phase = "init"
    /\ phase' = "setup"
    /\ listeners' = listeners \o SetupListeners
    /\ UNCHANGED <<config, extensions, members, queue, installs, filters, seen, last>>
    /\ UNCHANGED callVars

\* another extension connects a handler of its own
ConnectOther ==
    /\ phase \in {"init", "setup"}
    /\ Cardinality({i \in 1..Len(listeners) : listeners[i].handler = "other"})
          < MaxOtherHandlers
    /\ \E p \in OtherPriorities : listeners' = Append(listeners, Listener("other", p))
    /\ UNCHANGED <<config, extensions, members, queue, phase, installs, filters, seen, last>>
    /\ UNCHANGED callVars

\* Sphinx emits 'config-inited' once the extensions are set up
Fire ==
    /\ phase = "setup"
    /\ phase' = "firing"
    /\ queue' = SortByPriority(listeners)
    /\ UNCHANGED <<config, extensions, members, listeners, installs, filters, seen, last>>
    /\ UNCHANGED callVars

AfterHandler == IF Tail(queue) = <<>> THEN "done" ELSE "firing"

\* the event calls install_supress_handlers(app, config)
RunInstall ==
    /\ phase = "firing"
    /\ queue # <<>>
    /\ Head(queue).handler = "install_supress_handlers"
    /\ LET r == install_supress_handlers(config, extensions, members, filters, installs + 1)
       IN IF r.err
          THEN /\ phase' = "failed"
               /\ queue' = <<>>
               /\ UNCHANGED <<installs, filters, seen>>
          ELSE /\ phase' = AfterHandler
               /\ queue' = Tail(queue)
               /\ installs' = installs + 1
               /\ filters' = r.filters
               /\ seen' = r.seen
    /\ UNCHANGED <<config, extensions, members, listeners, last>>
    /\ UNCHANGED callVars

\* the event calls a handler of another extension
RunOther ==
    /\ phase = "firing"
    /\ queue # <<>>
    /\ Head(queue).handler = "other"
    /\ \E effect \in OtherEffects :
          /\ extensions' = IF effect = "load" /\ "late" \notin Range(extensions)
                           THEN Append(extensions, "late") ELSE extensions
          /\ members' = IF effect = "define"
                        THEN [members EXCEPT !["ext"] = @ \cup {LNew}] ELSE members
    /\ phase' = AfterHandler
    /\ queue' = Tail(queue)
    /\ UNCHANGED <<config, listeners, installs, filters, seen, last>>
    /\ UNCHANGED callVars

\* a record is logged on a logger: logging.Filterer.filter drops it when a filter
\* of the logger returns false.  The filters keep no state, so what becomes of a
\* record does not depend on the records logged before it: one record is followed.
Emit ==
    /\ phase = "done"
    /\ last = NoLast
    /\ \E l \in Loggers, levelno \in LogLevels, m \in LogMessages :
          LET record == LogRecord(l, levelno, m)
              by     == {filters[l][i].id : i \in {j \in 1..Len(filters[l]) :
                             ~SphinxSuppressFilterFilter(filters[l][j], record)}}
          IN last' = [logger |-> l, record |-> record, by |-> by, dropped |-> by # {}]
    /\ UNCHANGED <<config, extensions, members, listeners, queue, phase, installs,
                   filters, seen>>
    /\ UNCHANGED callVars

Next == Setup \/ ConnectOther \/ Fire \/ RunInstall \/ RunOther \/ Emit

Spec == Init /\ [][Next]_vars

(***************************************************************************)
(* _parse_levels on its own: every input of LevelInputs, then the call     *)
(***************************************************************************)
LevelItems ==
    { PyInt(30), PyInt(20), PyBool(TRUE), PyStr(WARNING), PyStr(INFO),
      PyStr(<<"w", "a", "r", "n", "i", "n", "g">>), PyNone, PyFloat(30),
      PyTuple(<<PyInt(30)>>), PyList(<<PyInt(30)>>) }

LevelInputs ==
    LevelItems
    \cup {PyList(q) : q \in SeqsUpTo(LevelItems, MaxLevelItems)}
    \cup {PyTuple(q) : q \in SeqsUpTo(LevelItems, MaxLevelItems)}

IdleApp ==
    /\ config = [loggers |-> <<>>, records |-> <<>>, protect |-> {}]
    /\ extensions = InitExtensions
    /\ members = InitMembers
    /\ listeners = <<>>
    /\ queue = <<>>
    /\ phase = "init"
    /\ installs = 0
    /\ filters = [l \in Loggers |-> <<>>]
    /\ seen = {}
    /\ last = NoLast

InitLevels ==
    /\ IdleApp
    /\ pc = "call"
    /\ arg \in LevelInputs
    /\ res = Returned(<<>>)

ParseLevels ==
    /\ pc = "call"
    /\ pc' = "done"
    /\ res' = _parse_levels(arg)
    /\ UNCHANGED arg
    /\ UNCHANGED appVars

SpecLevels == InitLevels /\ [][ParseLevels]_vars

(***************************************************************************)
(* The three suppressed() on their own: a combined filter and its two      *)
(* parts built from the same arguments, asked about the same record        *)
(***************************************************************************)
RuleNames == {format_name(ShortApp), format_name(ShortOther)}

RuleLevels == {PyBool(TRUE), PyBool(FALSE), PyList(<<PyInt(30)>>), PyList(<<>>)}

RulePatterns == { <<>>, << <<"x">> >>, << <<"^", "y">>, <<"s">> >> }

RuleRecords ==
    {LogRecord(l, levelno, m) :
        l \in {LApp, LAppChild, LAppX, LOther}, levelno \in LogLevels, m \in LogMessages}

InitRules ==
    /\ IdleApp
    /\ pc = "call"
    /\ arg \in [name : RuleNames, levels : RuleLevels, patterns : RulePatterns,
                record : RuleRecords]
    /\ res = [record |-> FALSE, logger |-> FALSE, patterns |-> FALSE]

Suppress ==
    /\ pc = "call"
    /\ pc' = "done"
    /\ res' = [record   |-> suppressed(SphinxSuppressRecord(<<0, "record", 1>>, arg.name,
                                           arg.levels, arg.patterns), arg.record),
               logger   |-> suppressed(SphinxSuppressLogger(<<0, "logger", 1>>, arg.name,
                                           arg.levels), arg.record),
               patterns |-> suppressed(SphinxSuppressPatterns(<<0, "default", 0>>,
                                           arg.patterns), arg.record)]
    /\ UNCHANGED arg
    /\ UNCHANGED appVars

SpecRules == InitRules /\ [][Suppress]_vars

(***************************************************************************)
(* Vocabulary of the properties                                            *)
(***************************************************************************)
\* the logger `prefix` itself or a dot-delimited descendant of it
IsOrDescends(name, prefix) == name = prefix \/ StartsWith(name, prefix \o <<".">>)

Emitted == last # NoLast

\* the ids of the filters attached to a logger
Attached(attached) == {attached[i].id : i \in 1..Len(attached)}

\* the last record was found suppressed by the k-th rule of a kind, as built by
\* some run of the installer
DroppedBy(kind, k) == \E run \in 1..installs : <<run, kind, k>> \in last.by

\* the tuples and the bare patterns of zeta_suppress_records, in order
ConfigGroups == SelectSeq(config.records, NotPatternLike)

ConfigBarePatterns ==
    {config.records[i].pats[1] : i \in {j \in 1..Len(config.records) :
                                          config.records[j].t = "str"}}

\* a logger carries the default rule and every prefix rule configured for it or for
\* an ancestor of it, as built by some run of the installer
HasRules(attached, name) ==
    \E run \in 1..2 :
        /\ <<run, "default", 0>> \in Attached(attached)
        /\ \A k \in 1..Len(config.loggers) :
              IsOrDescends(name, format_name(config.loggers[k].name))
                  => <<run, "logger", k>> \in Attached(attached)
        /\ \A j \in 1..Len(ConfigGroups) :
              IsOrDescends(name, format_name(ConfigGroups[j].name))
                  => <<run, "record", j>> \in Attached(attached)

\* a 'config-inited' listener of another extension with a priority between the two
\* of the installer
Between(l) ==
    l.handler = "other" /\ LowPriority < l.priority /\ l.priority < HighPriority

CountBetween(ls) == Cardinality({i \in 1..Len(ls) : Between(ls[i])})

(***************************************************************************)
(* C1                                                                      *)
(***************************************************************************)
\* C1: a record is dropped by the rule of a zeta_suppress_loggers entry
\* name -> levels only if it comes from the logger NAMESPACE.name or a
\* dot-delimited descendant of it and its level is in the resolved levels; a
\* record of any other discovered logger, such as NAMESPACE.namex, is not dropped
\* by it.
C1_LoggerRuleOnlyItsLogger ==
    Emitted =>
        \A k \in 1..Len(config.loggers) :
            DroppedBy("logger", k) =>
                /\ IsOrDescends(last.logger, format_name(config.loggers[k].name))
                /\ LET lv == ResolveLevels(config.loggers[k].levels)
                   IN lv.all \/ last.record.levelno \in Range(lv.out)

(***************************************************************************)
(* C2                                                                      *)
(***************************************************************************)
\* C2: a record of a discovered logger is dropped by the rule of a tuple
\* (name, pattern, ...) of zeta_suppress_records iff it comes from the logger
\* NAMESPACE.name or a dot-delimited descendant of it and its formatted message
\* matches one of the tuple's patterns, whatever its level.
C2_GroupRuleOnlyItsLogger ==
    (Emitted /\ filters[last.logger] # <<>>) =>
        \A j \in 1..Len(ConfigGroups) :
            DroppedBy("record", j) <=>
                /\ IsOrDescends(last.logger, format_name(ConfigGroups[j].name))
                /\ \E p \in Range(ConfigGroups[j].pats) :
                      Search(p, getMessage(last.record))

(***************************************************************************)
(* C3                                                                      *)
(***************************************************************************)
\* C3: a run of the installer attaches its default rule to every logger that is a
\* member of a module it scanned, whatever the logger's name; and a record of a
\* logger that carries the default rule is dropped by it iff there are bare
\* patterns and one of them is found by regex search in the formatted message,
\* whatever the logger and the level (never, when no bare pattern is configured).
C3_DefaultRule ==
    [][ /\ (installs' = installs + 1) =>
              \A m \in seen' : \A l \in members[m] :
                  <<installs', "default", 0>> \in Attached(filters'[l])
        /\ (Emitted' /\ filters'[last'.logger] # <<>>) =>
              ((\E run \in 1..installs' : <<run, "default", 0>> \in last'.by)
                  <=> /\ ConfigBarePatterns # {}
                      /\ \E p \in ConfigBarePatterns :
                            Search(p, getMessage(last'.record))) ]_vars

\* C3 witness: a record with arguments, logged on a logger that no configured
\* prefix matches, is dropped by the default rules and by nothing else
C3_Witness ==
    /\ Emitted
    /\ last.logger = LOther
    /\ config.loggers = <<>>
    /\ last.record.args # <<>>
    /\ last.by = {<<1, "default", 0>>, <<2, "default", 0>>}

(***************************************************************************)
(* C4                                                                      *)
(***************************************************************************)
\* what C4 expects of one severity: its integer, or nothing for an unknown name
ExpectedLevel(x) ==
    IF IsInt(x) THEN <<x.n>>
    ELSE IF x.s \in DOMAIN NameToLevel THEN <<NameToLevel[x.s]>>
    ELSE <<>>

RECURSIVE ExpectedLevels(_)
ExpectedLevels(xs) ==
    IF xs = <<>> THEN <<>> ELSE ExpectedLevel(Head(xs)) \o ExpectedLevels(Tail(xs))

IsSeverity(x) == IsInt(x) \/ x.t = "str"

\* C4: for a single severity that is an integer or a level name, or a list or
\* tuple of such, _parse_levels returns the corresponding integer levels in input
\* order, unknown names dropped; a single known name yields its one level.
C4_ParseLevelsResult ==
    (pc = "done" /\ (IsSeverity(arg) \/ (arg.t \in {"list", "tuple"}
                        /\ \A i \in 1..Len(arg.e) : IsSeverity(arg.e[i])))) =>
        /\ ~res.err
        /\ res.out = ExpectedLevels(IF IsSeverity(arg) THEN <<arg>> ELSE arg.e)

(***************************************************************************)
(* C5                                                                      *)
(***************************************************************************)
\* C5: _parse_levels raises a type error whenever the severity given alone, or an
\* element of the list or tuple given, is neither an integer nor a string.
C5_TypeErrorForBadSeverity ==
    (pc = "done" /\ IF arg.t \in {"list", "tuple"}
                    THEN \E i \in 1..Len(arg.e) : ~IsSeverity(arg.e[i])
                    ELSE ~IsSeverity(arg)) =>
        res.err

(***************************************************************************)
(* C6                                                                      *)
(***************************************************************************)
\* C6: a module named in zeta_suppress_protect is never scanned, and no filter is
\* attached to a logger it defines, also when the logger is a member of another,
\* scanned module.
C6_ProtectedUntouched ==
    installs >= 1 =>
        \A m \in config.protect :
            /\ m \notin seen
            /\ \A l \in Loggers : DefinedIn[l] = m => filters[l] = <<>>

(***************************************************************************)
(* C7                                                                      *)
(***************************************************************************)
\* C7: the second run of the installer, against the modules and the configuration
\* of the first, leaves the list of filters of every logger as the first run
\* left it.
C7_SecondRunChangesNothing ==
    [][ (installs = 1 /\ installs' = 2 /\ extensions = InitExtensions
            /\ members = InitMembers)
        => filters' = filters ]_vars

(***************************************************************************)
(* C8                                                                      *)
(***************************************************************************)
\* C8: SphinxSuppressRecord(name, levels, patterns) suppresses a record exactly
\* when SphinxSuppressLogger(name, levels) and SphinxSuppressPatterns(patterns)
\* both suppress it.
C8_RecordIsConjunction ==
    pc = "done" => (res.record <=> (res.logger /\ res.patterns))

(***************************************************************************)
(* C9                                                                      *)
(***************************************************************************)
\* C9: the first run of the installer comes before, and the second after, every
\* handler another extension connected with a priority between 0 and 1000; and
\* when the second run completes, every logger that is a member of a
\* non-protected extension loaded by then carries the default rule and the
\* prefix rules configured for it.
C9_TwoPasses ==
    [][ /\ (installs = 0 /\ installs' = 1) =>
              CountBetween(queue') = CountBetween(listeners)
        /\ (installs = 1 /\ installs' = 2) =>
              /\ CountBetween(queue') = 0
              /\ \A e \in Range(extensions) \ config.protect :
                    \A l \in members[e] : HasRules(filters'[l], l) ]_vars

\* C9 witness: the extension "late" was loaded between the two runs, and its
\* logger, a descendant of a configured logger, carries the rules of the second
\* run and none of the first
C9_Witness ==
    /\ installs = 2
    /\ Len(config.loggers) = 1
    /\ Attached(filters[LLate]) = {<<2, "logger", 1>>, <<2, "default", 0>>}
    /\ <<1, "default", 0>> \in Attached(filters[LApp])

(***************************************************************************)
(* C10                                                                     *)
(***************************************************************************)
\* the importable, non-protected submodules below a package, at any depth
RECURSIVE SubmodulesBelow(_)
SubmodulesBelow(m) ==
    LET direct == {c \in Range(IterModules(m)) : c \notin config.protect /\ Importable(c)}
    IN direct \cup UNION {SubmodulesBelow(c) : c \in direct}

\* C10: after a run of the installer, every importable, non-protected submodule
\* at any depth below a loaded, non-protected extension package has been scanned
\* and every logger among its members carries the rules.
C10_SubmodulesAtAnyDepth ==
    installs >= 1 =>
        \A e \in Range(extensions) \ config.protect :
            \A d \in SubmodulesBelow(e) :
                /\ d \in seen
                /\ \A l \in members[d] : HasRules(filters[l], l)

====
